---------------------------- MODULE Spec2Model ----------------------------
(***************************************************************************)
(* btheadset: connect a Bluetooth headset and make it the default          *)
(* PulseAudio output sink (btheadset/btheadset/btheadset.py).              *)
(*                                                                         *)
(* Text is modelled as it is processed.  A Bluetooth address and every     *)
(* other character string the program matches with a regular expression    *)
(* is a sequence of one-character strings.  The stdout of bluetoothctl is  *)
(* a sequence of tokens (words, or an address as a character sequence),    *)
(* and Python's `marker in text` is contiguous-subsequence containment.    *)
(* The stdout of pacmd list-cards / list-sinks is a sequence of items      *)
(* separated by white space.                                               *)
(*                                                                         *)
(* subprocess.run(..., check=True) either returns a CompletedProcess       *)
(* whose stdout the caller can read, or raises (non-zero exit, or the      *)
(* program could not be launched).  The result of an external call is      *)
(* therefore either Raised or Returned(stdout).                            *)
(*                                                                         *)
(* Time is counted in ticks; the wall clock advances while an external     *)
(* process runs (by 0 ticks when it returns within the clock's             *)
(* resolution).  The program reads the clock only in wait_until_connected, *)
(* so the clock is modelled from the moment `start` is taken.              *)
(***************************************************************************)
EXTENDS Integers, Sequences, FiniteSets, TLC

VARIABLES
    argv,          \* command line: [b |-> address argument, c |-> timeout, p |-> profile]
    pc,            \* position of main()
    inflight,      \* TRUE while subprocess.run() is waiting for the child process
    address,       \* args.bluetooth_address
    timeout,       \* args.connect_timeout
    profile,       \* args.card_profile
    failure,       \* the exception that ended the run, "none" while there is none
    exitCode,      \* process exit status, NoExit while running
    calls,         \* external processes spawned so far, in order
    outs,          \* outs[i]: what calls[i] gave back (Raised or Returned(stdout))
    now,           \* wall clock, datetime.now()
    start,         \* wait_until_connected's local `start`
    polledAt,      \* elapsed time the loop-top check read before each poll it let through
    card_index,    \* main's local card_index
    sink_index,    \* main's local sink_index
    cardProfile,   \* audio server: profile last applied to each card index
    defaultSink,   \* audio server: the default sink
    canon,         \* [arg, v]: the validator's previous argument and result, once fed back
    cur,           \* which run of the tool the variables above describe, "A" or "B"
    other          \* the other run's argv, position and locals while it is not scheduled

vars == <<argv, pc, inflight, address, timeout, profile, failure, exitCode,
          calls, outs, now, start, polledAt, card_index, sink_index,
          cardProfile, defaultSink, canon, cur, other>>

\* exitCode while the process is running
NoExit == 0 - 1
\* subprocess.run(check=True) raised: non-zero exit, or the program was not launched
Raised == [raised |-> TRUE, stdout |-> <<>>]
\* subprocess.run(check=True) returned a CompletedProcess with this stdout
Returned(text) == [raised |-> FALSE, stdout |-> text]

-----------------------------------------------------------------------------
(* Bounds *)

\* most colon-separated groups in a generated address argument
MaxGroups == 7
\* most info polls one run issues
MaxPolls == 3
\* most ticks one external process takes
MaxLatency == 2
\* largest --connect-timeout tried
MaxTimeout == 2

\* --connect-timeout when none is given
DefaultTimeout == 5

-----------------------------------------------------------------------------
(* Characters and strings *)

Digits == <<"0", "1", "2", "3", "4", "5", "6", "7", "8", "9">>
LowerHex == {"a", "b", "c", "d", "e", "f"}
UpperHex == {"A", "B", "C", "D", "E", "F"}
DigitSet == {Digits[i] : i \in 1..10}

\* str.upper() on one character
UpperChar(ch) ==
    CASE ch = "a" -> "A" [] ch = "b" -> "B" [] ch = "c" -> "C"
      [] ch = "d" -> "D" [] ch = "e" -> "E" [] ch = "f" -> "F"
      [] ch = "g" -> "G" [] ch = "x" -> "X"
      [] OTHER -> ch

\* str.upper() left out
UpperLeftOut(s) == s

\* str.upper()
Upper(s) == [i \in 1..Len(s) |-> UpperChar(s[i])]

\* str.replace(old, new) for one-character old and new
Replace(s, old, new) == [i \in 1..Len(s) |-> IF s[i] = old THEN new ELSE s[i]]

\* str(n) for a natural number n
RECURSIVE StrNat(_)
StrNat(n) == IF n < 10 THEN <<Digits[n + 1]>>
             ELSE Append(StrNat(n \div 10), Digits[(n % 10) + 1])

\* str(value): a string stays itself, an integer becomes its decimal digits
Str(value) == IF value.kind = "int" THEN StrNat(value.n) ELSE value.s

\* `needle in text`
Contains(text, needle) ==
    \E i \in 0..(Len(text) - Len(needle)) :
        \A j \in 1..Len(needle) : text[i + j] = needle[j]

-----------------------------------------------------------------------------
(* BluetoothAddress *)

\* [0-9a-f] under re.IGNORECASE
IsHexChar(ch) == ch \in DigitSet \cup LowerHex \cup UpperHex

\* ([0-9a-f]{2}:){5}([0-9a-f]{2}) consuming exactly s[1..17]
MatchesGroups(s) ==
    /\ Len(s) >= 17
    /\ \A i \in 1..17 : IF i % 3 = 0 THEN s[i] = ":" ELSE IsHexChar(s[i])

\* RE_BT_ADDRESS.match(s): ^ at the start, and $ (without re.MULTILINE) at the
\* end of the string or just before a newline that ends the string
RE_BT_ADDRESS(s) ==
    /\ MatchesGroups(s)
    /\ \/ Len(s) = 17
       \/ Len(s) = 18 /\ s[18] = "\n"

\* BluetoothAddress.__call__: ok = FALSE stands for ArgumentTypeError
BluetoothAddress(value) ==
    LET v == Str(value)
    IN  IF ~RE_BT_ADDRESS(v) THEN [ok |-> FALSE, v |-> <<>>]
        ELSE [ok |-> TRUE, v |-> Upper(v)]

-----------------------------------------------------------------------------
(* Command lines *)

\* the groups joined by sep: g1 sep g2 sep ... gn
RECURSIVE Join(_, _)
Join(groups, sep) ==
    IF Len(groups) = 0 THEN <<>>
    ELSE IF Len(groups) = 1 THEN groups[1]
    ELSE groups[1] \o <<sep>> \o Join(Tail(groups), sep)

StrArg(s) == [kind |-> "str", s |-> s, n |-> 0]
IntArg(n) == [kind |-> "int", s |-> <<>>, n |-> n]

\* address arguments of the runs of main
LowerAddr == Join(<<<<"a","a">>, <<"b","b">>, <<"c","c">>, <<"d","d">>, <<"e","e">>, <<"f","f">>>>, ":")
DigitAddr == Join(<<<<"1","1">>, <<"2","2">>, <<"3","3">>, <<"4","4">>, <<"5","5">>, <<"6","6">>>>, ":")
AddrArgs ==
    { StrArg(LowerAddr), StrArg(DigitAddr \o <<"\n">>),
      StrArg(<<"f", "o", "o">>), IntArg(0) }

\* --connect-timeout values (argparse type=int takes any integer)
Timeouts == (0 - 1)..MaxTimeout

\* --card-profile values
Profiles == { <<"a2dp_sink">>, <<"off">> }

\* address arguments the validator is tried on
Pairs == { <<"1", "a">>, <<"F", "9">>, <<"g", "0">> }
Separators == { ":", "-" }
Prefixes == { <<>>, <<" ">> }
Suffixes == { <<>>, <<"\n">>, <<" ">>, <<"\n", "\n">> }
ValidatorArgs ==
    { StrArg(pre \o Join(g, sep) \o suf) :
        pre \in Prefixes, sep \in Separators, suf \in Suffixes,
        g \in UNION { [1..n -> Pairs] : n \in 1..MaxGroups } }
    \cup { IntArg(n) : n \in {0, 7, 42} }

-----------------------------------------------------------------------------
(* What the external programs can print *)

W(word) == <<word>>

\* connect_device's marker, f"Device {bluetooth_address} not available"
NotAvailable(bluetooth_address) ==
    << W("Device"), bluetooth_address, W("not"), W("available") >>

\* wait_until_connected's marker, "Connected: yes"
ConnectedYes == << W("Connected:"), W("yes") >>

\* stdout of `bluetoothctl` fed "connect <address>"; raw is the address as typed
ConnectOuts(bluetooth_address, raw) ==
    { << W("Attempting"), W("to"), W("connect"), W("to"), bluetooth_address >>,
      NotAvailable(bluetooth_address),
      << W("[bluetooth]#") >> \o NotAvailable(bluetooth_address) \o << W("[bluetooth]#") >>,
      NotAvailable(raw),
      << W("Device"), bluetooth_address, W("available") >>,
      << W("Failed"), W("to"), W("connect:"), W("org.bluez.Error.Failed") >> }

\* stdout of `bluetoothctl` fed "info <address>"
InfoOuts ==
    { ConnectedYes,
      << W("Name:"), W("Headset"), W("Connected:"), W("yes"), W("Paired:"), W("yes") >>,
      << W("Connected:"), W("no"), W("Paired:"), W("yes") >> }

\* items of a pacmd dump
IndexItem(digits) == [t |-> "index", v |-> digits]
NameItem(name) == [t |-> "name", v |-> name]
OtherLine == [t |-> "line", v |-> <<>>]

\* f"bluez_card.{bluetooth_address.replace(':', '_')}"
CardName(bluetooth_address) ==
    << "bluez_card", "." >> \o Replace(bluetooth_address, ":", "_")

\* f"bluez_sink.{bluetooth_address.replace(':', '_')}.{profile}"
SinkName(bluetooth_address, prof) ==
    << "bluez_sink", "." >> \o Replace(bluetooth_address, ":", "_") \o << "." >> \o prof

BuiltinCard == << "alsa_card", ".", "p", "c", "i" >>
BuiltinSink == << "alsa_output", ".", "p", "c", "i" >>

\* stdout of `pacmd list-cards` / `pacmd list-sinks`, for the entity called name
Dumps(name, builtin) ==
    { << >>,
      << IndexItem(<<"1">>), NameItem(name) >>,
      << IndexItem(<<"0">>), NameItem(builtin), IndexItem(<<"1", "2">>), NameItem(name) >>,
      << IndexItem(<<"3">>), OtherLine, NameItem(name) >>,
      << IndexItem(<<"4">>), NameItem([name EXCEPT ![2] = "x"]) >> }

-----------------------------------------------------------------------------
(* Regular-expression lookup in a pacmd dump *)

\* the characters of a regular-expression-quoted name against a name of the
\* dump: "." matches any one character but a newline, every other character
\* of the names used here matches itself
NameMatches(pattern, name) ==
    /\ Len(pattern) = Len(name)
    /\ \A i \in 1..Len(pattern) :
          IF pattern[i] = "." THEN name[i] # "\n" ELSE name[i] = pattern[i]

\* re.search(fr"index: (?P<i>\d+)\s*name: <{name}>", dump): the positions of
\* an index item that only white space separates from a matching name item
MatchPositions(dump, name) ==
    { i \in 1..(Len(dump) - 1) :
        /\ dump[i].t = "index"
        /\ dump[i + 1].t = "name"
        /\ NameMatches(name, dump[i + 1].v) }

\* m is None / m.group("..._index") of the leftmost match
Search(dump, name) ==
    LET hits == MatchPositions(dump, name)
    IN  IF hits = {} THEN [found |-> FALSE, index |-> <<>>]
        ELSE [found |-> TRUE,
              index |-> dump[CHOOSE i \in hits : \A j \in hits : i <= j].v]

-----------------------------------------------------------------------------
(* The run of main() *)

Call(tool, cmd, args) == [tool |-> tool, cmd |-> cmd, args |-> args]

\* subprocess.run() starts the child process and waits for it
Spawn(call) ==
    /\ ~inflight
    /\ inflight' = TRUE
    /\ calls' = Append(calls, call)

\* the exception is caught and logged, and main returns
AbortSwallowed(reason, code) ==
    /\ pc' = "Failed"
    /\ failure' = reason
    /\ exitCode' = 0

\* an unhandled exception ends the process
Abort(reason, code) ==
    /\ pc' = "Failed"
    /\ failure' = reason
    /\ exitCode' = code

\* the child process is over: r is what subprocess.run() gave back
Reaped(r) ==
    /\ inflight
    /\ inflight' = FALSE
    /\ outs' = Append(outs, r)

Elapsed == now - start

\* canon before the validator's result is fed back
NotFedBack == [arg |-> StrArg(<<>>), v |-> <<>>]

\* the locals of a run, as they are kept while another run is scheduled
Locals(a, p, f, adr, t, prof, fail, code, cs, os, st, polls, card, sink, cn) ==
    [argv |-> a, pc |-> p, inflight |-> f, address |-> adr, timeout |-> t,
     profile |-> prof, failure |-> fail, exitCode |-> code, calls |-> cs, outs |-> os,
     start |-> st, polledAt |-> polls, card_index |-> card, sink_index |-> sink,
     canon |-> cn]

\* a second run that was never started
NoOther ==
    Locals([b |-> StrArg(<<>>), c |-> 0, p |-> <<>>], "Absent", FALSE, <<>>, 0, <<>>,
           "none", NoExit, <<>>, <<>>, 0, <<>>, <<>>, <<>>, NotFedBack)

\* the process before main() runs
Fresh ==
    /\ pc = "Idle"
    /\ inflight = FALSE
    /\ address = <<>>
    /\ timeout = 0
    /\ profile = <<>>
    /\ failure = "none"
    /\ exitCode = NoExit
    /\ calls = <<>>
    /\ outs = <<>>
    /\ now = 0
    /\ start = 0
    /\ polledAt = <<>>
    /\ card_index = <<>>
    /\ sink_index = <<>>
    /\ cardProfile = <<>>
    /\ defaultSink = <<"0">>
    /\ canon = NotFedBack
    /\ cur = "A"
    /\ other = NoOther

Init ==
    /\ argv \in [b : AddrArgs, c : Timeouts, p : Profiles]
    /\ Fresh

\* the validator reports a bad address and main goes on with it
ParseArgsWarnOnly ==
    /\ pc = "Idle"
    /\ LET r == BluetoothAddress(argv.b)
       IN  /\ address' = IF r.ok THEN r.v ELSE Str(argv.b)
           /\ failure' = IF r.ok THEN failure ELSE "InvalidAddress"
    /\ timeout' = argv.c
    /\ profile' = argv.p
    /\ pc' = "Connecting"
    /\ UNCHANGED <<argv, inflight, exitCode, calls, outs, now, start, polledAt,
                   card_index, sink_index, cardProfile, defaultSink, canon,
                   cur, other>>

\* main line 159: __parse_args(); argparse exits with status 2 on a bad argument
ParseArgs ==
    /\ pc = "Idle"
    /\ LET r == BluetoothAddress(argv.b)
       IN  IF ~r.ok
           THEN /\ Abort("InvalidAddress", 2)
                /\ UNCHANGED <<address, timeout, profile>>
           ELSE /\ address' = r.v
                /\ timeout' = argv.c
                /\ profile' = argv.p
                /\ pc' = "Connecting"
                /\ UNCHANGED <<failure, exitCode>>
    /\ UNCHANGED <<argv, inflight, calls, outs, now, start, polledAt, card_index,
                   sink_index, cardProfile, defaultSink, canon,
                   cur, other>>

\* connect_device lines 60-66: spawn bluetoothctl with "connect <address>"
ConnectCall ==
    /\ pc = "Connecting"
    /\ Spawn(Call("bluetoothctl", "connect", <<address>>))
    /\ UNCHANGED <<argv, pc, address, timeout, profile, failure, exitCode, outs, now,
                   start, polledAt, card_index, sink_index, cardProfile, defaultSink,
                   canon,
                   cur, other>>

\* the stdout is compared with the marker instead of searched for it
ConnectFailsOnExactOutput(r) ==
    \/ r.raised
    \/ r.stdout = NotAvailable(address)

\* any output that reports an error fails the connect
ConnectFailsOnAnyError(r) ==
    \/ r.raised
    \/ Contains(r.stdout, NotAvailable(address))
    \/ Contains(r.stdout, << W("Failed") >>)

\* connect_device lines 67-70
ConnectFails(r) ==
    \/ r.raised
    \/ Contains(r.stdout, NotAvailable(address))

\* connect_device lines 60-70 once bluetoothctl is over, then
\* wait_until_connected line 75: start = datetime.now()
ConnectReturn ==
    /\ pc = "Connecting"
    /\ \E r \in {Raised} \cup {Returned(t) : t \in ConnectOuts(address, Str(argv.b))} :
        /\ Reaped(r)
        /\ IF ConnectFails(r)
           THEN /\ Abort(IF r.raised THEN "ExternalProcessFailure" ELSE "DeviceUnavailable", 1)
                /\ UNCHANGED start
           ELSE /\ pc' = "AwaitingConnection"
                /\ start' = now
                /\ UNCHANGED <<failure, exitCode>>
    /\ UNCHANGED <<argv, address, timeout, profile, calls, now, polledAt, card_index,
                   sink_index, cardProfile, defaultSink, canon,
                   cur, other>>

\* the elapsed time is taken with the wrong sign
DeadlineReversed == (start - now) < timeout

\* the loop-top check lets a poll start at the deadline itself
DeadlineNotPassed == Elapsed <= timeout

\* wait_until_connected line 76, the loop-top check
DeadlineNotReached == Elapsed < timeout

\* wait_until_connected lines 76-83: the check passes and bluetoothctl is
\* spawned with "info <address>"
PollCall ==
    /\ pc = "AwaitingConnection"
    /\ Len(polledAt) < MaxPolls
    /\ DeadlineNotReached
    /\ Spawn(Call("bluetoothctl", "info", <<address>>))
    /\ polledAt' = Append(polledAt, Elapsed)
    /\ UNCHANGED <<argv, pc, address, timeout, profile, failure, exitCode, outs, now,
                   start, card_index, sink_index, cardProfile, defaultSink, canon,
                   cur, other>>

\* the wall clock advances while the info poll is running
Tick ==
    /\ pc = "AwaitingConnection"
    /\ inflight
    /\ Elapsed - polledAt[Len(polledAt)] < MaxLatency
    /\ now' = now + 1
    /\ UNCHANGED <<argv, pc, inflight, address, timeout, profile, failure, exitCode,
                   calls, outs, start, polledAt, card_index, sink_index, cardProfile,
                   defaultSink, canon,
                   cur, other>>

\* any "yes" in the output counts as connected
SeesAnyYes(r) == Contains(r.stdout, << W("yes") >>)

\* wait_until_connected line 84
SeesConnected(r) == Contains(r.stdout, ConnectedYes)

\* wait_until_connected lines 77-88 once bluetoothctl is over
PollReturn ==
    /\ pc = "AwaitingConnection"
    /\ \E r \in {Raised} \cup {Returned(t) : t \in InfoOuts} :
        /\ Reaped(r)
        /\ IF r.raised
           THEN Abort("ExternalProcessFailure", 1)
           ELSE /\ pc' = IF SeesConnected(r) THEN "ResolvingCard" ELSE "AwaitingConnection"
                /\ UNCHANGED <<failure, exitCode>>
    /\ UNCHANGED <<argv, address, timeout, profile, calls, now, start, polledAt,
                   card_index, sink_index, cardProfile, defaultSink, canon,
                   cur, other>>

\* wait_until_connected lines 76, 89-91: the check fails and the loop is left
WaitTimeout ==
    /\ pc = "AwaitingConnection"
    /\ ~inflight
    /\ ~DeadlineNotReached
    /\ Abort("ConnectTimeout", 1)
    /\ UNCHANGED <<argv, inflight, address, timeout, profile, calls, outs, now, start,
                   polledAt, card_index, sink_index, cardProfile, defaultSink, canon,
                   cur, other>>

\* get_card_index lines 96-103: spawn pacmd list-cards
ListCardsCall ==
    /\ pc = "ResolvingCard"
    /\ Spawn(Call("pacmd", "list-cards", <<>>))
    /\ UNCHANGED <<argv, pc, address, timeout, profile, failure, exitCode, outs, now,
                   start, polledAt, card_index, sink_index, cardProfile, defaultSink,
                   canon,
                   cur, other>>

\* get_card_index lines 104-113 once pacmd is over
ListCardsReturn ==
    /\ pc = "ResolvingCard"
    /\ \E r \in {Raised} \cup {Returned(t) : t \in Dumps(CardName(address), BuiltinCard)} :
        /\ Reaped(r)
        /\ LET m == Search(r.stdout, CardName(address))
           IN  IF r.raised \/ ~m.found
               THEN /\ Abort(IF r.raised THEN "ExternalProcessFailure" ELSE "EntityNotFound", 1)
                    /\ UNCHANGED card_index
               ELSE /\ card_index' = m.index
                    /\ pc' = "SettingProfileOff"
                    /\ UNCHANGED <<failure, exitCode>>
    /\ UNCHANGED <<argv, address, timeout, profile, calls, now, start, polledAt,
                   sink_index, cardProfile, defaultSink, canon,
                   cur, other>>

\* the first call asks for the requested profile too
FirstProfileRequested == profile

\* the profile set_card_profile's first call asks for (lines 119-121)
FirstProfile == <<"off">>

\* set_card_profile lines 119-121: spawn pacmd set-card-profile <card> off
ProfileOffCall ==
    /\ pc = "SettingProfileOff"
    /\ Spawn(Call("pacmd", "set-card-profile", <<card_index, FirstProfile>>))
    /\ UNCHANGED <<argv, pc, address, timeout, profile, failure, exitCode, outs, now,
                   start, polledAt, card_index, sink_index, cardProfile, defaultSink,
                   canon,
                   cur, other>>

\* the first pacmd's exit status is not checked
AfterOffRaisedGoOn == "SettingProfile"

\* where main goes when set_card_profile's first pacmd raised
AfterOffRaised == "Failed"

\* the audio server after `pacmd set-card-profile card prof` succeeded
ApplyProfile(card, prof) ==
    [c \in (DOMAIN cardProfile) \cup {card} |-> IF c = card THEN prof ELSE cardProfile[c]]

\* set_card_profile lines 119-121 once pacmd is over
ProfileOffReturn ==
    /\ pc = "SettingProfileOff"
    /\ \E r \in {Raised, Returned(<<>>)} :
        /\ Reaped(r)
        /\ IF r.raised
           THEN /\ pc' = AfterOffRaised
                /\ failure' = "ExternalProcessFailure"
                /\ exitCode' = 1
                /\ UNCHANGED cardProfile
           ELSE /\ cardProfile' = ApplyProfile(calls[Len(calls)].args[1], calls[Len(calls)].args[2])
                /\ pc' = "SettingProfile"
                /\ UNCHANGED <<failure, exitCode>>
    /\ UNCHANGED <<argv, address, timeout, profile, calls, now, start, polledAt,
                   card_index, sink_index, defaultSink, canon,
                   cur, other>>

\* set_card_profile lines 122-124: spawn pacmd set-card-profile <card> <profile>
ProfileSetCall ==
    /\ pc = "SettingProfile"
    /\ Spawn(Call("pacmd", "set-card-profile", <<card_index, profile>>))
    /\ UNCHANGED <<argv, pc, address, timeout, profile, failure, exitCode, outs, now,
                   start, polledAt, card_index, sink_index, cardProfile, defaultSink,
                   canon,
                   cur, other>>

\* set_card_profile lines 122-124 once pacmd is over
ProfileSetReturn ==
    /\ pc = "SettingProfile"
    /\ \E r \in {Raised, Returned(<<>>)} :
        /\ Reaped(r)
        /\ IF r.raised
           THEN /\ Abort("ExternalProcessFailure", 1)
                /\ UNCHANGED cardProfile
           ELSE /\ cardProfile' = ApplyProfile(calls[Len(calls)].args[1], calls[Len(calls)].args[2])
                /\ pc' = "ResolvingSink"
                /\ UNCHANGED <<failure, exitCode>>
    /\ UNCHANGED <<argv, address, timeout, profile, calls, now, start, polledAt,
                   card_index, sink_index, defaultSink, canon,
                   cur, other>>

\* get_sink_index lines 129-136: spawn pacmd list-sinks
ListSinksCall ==
    /\ pc = "ResolvingSink"
    /\ Spawn(Call("pacmd", "list-sinks", <<>>))
    /\ UNCHANGED <<argv, pc, address, timeout, profile, failure, exitCode, outs, now,
                   start, polledAt, card_index, sink_index, cardProfile, defaultSink,
                   canon,
                   cur, other>>

\* get_sink_index lines 137-146 once pacmd is over
ListSinksReturn ==
    /\ pc = "ResolvingSink"
    /\ \E r \in {Raised} \cup {Returned(t) : t \in Dumps(SinkName(address, profile), BuiltinSink)} :
        /\ Reaped(r)
        /\ LET m == Search(r.stdout, SinkName(address, profile))
           IN  IF r.raised \/ ~m.found
               THEN /\ Abort(IF r.raised THEN "ExternalProcessFailure" ELSE "EntityNotFound", 1)
                    /\ UNCHANGED sink_index
               ELSE /\ sink_index' = m.index
                    /\ pc' = "SettingDefaultSink"
                    /\ UNCHANGED <<failure, exitCode>>
    /\ UNCHANGED <<argv, address, timeout, profile, calls, now, start, polledAt,
                   card_index, cardProfile, defaultSink, canon,
                   cur, other>>

\* the card index is passed where the sink index belongs
DefaultSinkCallWithCard ==
    /\ pc = "SettingDefaultSink"
    /\ Spawn(Call("pacmd", "set-default-sink", <<card_index>>))
    /\ UNCHANGED <<argv, pc, address, timeout, profile, failure, exitCode, outs, now,
                   start, polledAt, card_index, sink_index, cardProfile, defaultSink,
                   canon,
                   cur, other>>

\* set_default_sink lines 152-154: spawn pacmd set-default-sink <sink>
DefaultSinkCall ==
    /\ pc = "SettingDefaultSink"
    /\ Spawn(Call("pacmd", "set-default-sink", <<sink_index>>))
    /\ UNCHANGED <<argv, pc, address, timeout, profile, failure, exitCode, outs, now,
                   start, polledAt, card_index, sink_index, cardProfile, defaultSink,
                   canon,
                   cur, other>>

\* set_default_sink lines 152-154 once pacmd is over; main returns, exit status 0
DefaultSinkReturn ==
    /\ pc = "SettingDefaultSink"
    /\ \E r \in {Raised, Returned(<<>>)} :
        /\ Reaped(r)
        /\ IF r.raised
           THEN /\ Abort("ExternalProcessFailure", 1)
                /\ UNCHANGED defaultSink
           ELSE /\ defaultSink' = calls[Len(calls)].args[1]
                /\ pc' = "Done"
                /\ exitCode' = 0
                /\ UNCHANGED failure
    /\ UNCHANGED <<argv, address, timeout, profile, calls, now, start, polledAt,
                   card_index, sink_index, cardProfile, canon,
                   cur, other>>

Next ==
    \/ ParseArgs
    \/ ConnectCall
    \/ ConnectReturn
    \/ PollCall
    \/ Tick
    \/ PollReturn
    \/ WaitTimeout
    \/ ListCardsCall
    \/ ListCardsReturn
    \/ ProfileOffCall
    \/ ProfileOffReturn
    \/ ProfileSetCall
    \/ ProfileSetReturn
    \/ ListSinksCall
    \/ ListSinksReturn
    \/ DefaultSinkCall
    \/ DefaultSinkReturn

Spec == Init /\ [][Next]_vars

-----------------------------------------------------------------------------
(* The validator on its own *)

InitAddr ==
    /\ argv \in [b : ValidatorArgs, c : {DefaultTimeout}, p : {<<"a2dp_sink">>}]
    /\ Fresh

\* the validator's result is given to the validator again, as
\* test_bluetooth_address calls BluetoothAddress()(value) on a string
Refeed ==
    /\ pc = "Connecting"
    /\ calls = <<>>
    /\ canon = NotFedBack
    /\ canon' = [arg |-> argv.b, v |-> address]
    /\ argv' = [argv EXCEPT !.b = StrArg(address)]
    /\ pc' = "Idle"
    /\ UNCHANGED <<inflight, address, timeout, profile, failure, exitCode, calls, outs,
                   now, start, polledAt, card_index, sink_index, cardProfile,
                   defaultSink, cur, other>>

NextAddr ==
    \/ ParseArgs
    \/ Refeed

SpecAddr == InitAddr /\ [][NextAddr]_vars

-----------------------------------------------------------------------------
(* Properties of the validator, under SpecAddr *)

HexDigitChars ==
    { "0", "1", "2", "3", "4", "5", "6", "7", "8", "9",
      "a", "b", "c", "d", "e", "f", "A", "B", "C", "D", "E", "F" }
UpperHexDigitChars ==
    { "0", "1", "2", "3", "4", "5", "6", "7", "8", "9", "A", "B", "C", "D", "E", "F" }
CasePairs ==
    { <<"a", "A">>, <<"b", "B">>, <<"c", "C">>, <<"d", "D">>, <<"e", "E">>, <<"f", "F">> }

\* s is exactly six colon-separated groups of two characters of the set hex
SixPairsOf(s, hex) ==
    /\ Len(s) = 17
    /\ \A k \in 0..5 : s[3 * k + 1] \in hex /\ s[3 * k + 2] \in hex
    /\ \A k \in 1..5 : s[3 * k] = ":"

\* canon is s with every lower-case hex letter replaced by its capital
IsUpperCaseOf(up, s) ==
    /\ Len(up) = Len(s)
    /\ \A i \in 1..Len(s) :
          IF s[i] \in {p[1] : p \in CasePairs} THEN <<s[i], up[i]>> \in CasePairs
          ELSE up[i] = s[i]

\* the validator has been called on argv.b
Validated == pc # "Idle"
Rejected == pc = "Failed" /\ failure = "InvalidAddress"
Accepted == pc = "Connecting"

\* C8: every argument that is not exactly six colon-separated groups of two
\* hex digits (a string of another shape, or a non-string such as an integer)
\* is rejected with InvalidAddress, so that every address the validator
\* returns matches XX:XX:XX:XX:XX:XX with upper-case hex digits only.
C8_OnlySixPairsAccepted ==
    /\ (Validated /\ ~SixPairsOf(Str(argv.b), HexDigitChars)) => Rejected
    /\ Accepted => SixPairsOf(address, UpperHexDigitChars)

\* C9: for every string of six colon-separated hex byte pairs, in any letter
\* case, the validator returns that string in upper case; and when the
\* returned string is given to the validator again, it is accepted and
\* returned unchanged.
C9_UpperCaseIdempotent ==
    /\ (Validated /\ argv.b.kind = "str" /\ SixPairsOf(argv.b.s, HexDigitChars))
          => (Accepted /\ IsUpperCaseOf(address, argv.b.s))
    /\ (Validated /\ SixPairsOf(canon.v, HexDigitChars))
          => (Accepted /\ address = canon.v)

\* a mixed-case address was accepted, fed back and accepted again
C9_Witness ==
    /\ Accepted
    /\ SixPairsOf(canon.arg.s, HexDigitChars)
    /\ \E i \in 1..17 : canon.arg.s[i] \in LowerHex
    /\ \E i \in 1..17 : canon.arg.s[i] \in UpperHex
    /\ argv.b = StrArg(canon.v)
    /\ address = canon.v

-----------------------------------------------------------------------------
(* Properties of a run of main, under Spec *)

\* call i has returned with text in its stdout
ReturnedWith(i, text) ==
    /\ i <= Len(outs)
    /\ ~outs[i].raised
    /\ Contains(outs[i].stdout, text)

\* call i raised (non-zero exit, or not launched)
RaisedAt(i) == i <= Len(outs) /\ outs[i].raised

InfoCalls == { i \in 1..Len(calls) : calls[i].cmd = "info" }
ProfileCalls == { i \in 1..Len(calls) : calls[i].cmd = "set-card-profile" }
AudioCalls == { i \in 1..Len(calls) : calls[i].tool = "pacmd" }
LastCall == calls[Len(calls)]

\* the calls of a complete run that polls n times
FullRun(n) ==
    << [tool |-> "bluetoothctl", cmd |-> "connect", args |-> <<address>>] >>
    \o [i \in 1..n |-> [tool |-> "bluetoothctl", cmd |-> "info", args |-> <<address>>]]
    \o << [tool |-> "pacmd", cmd |-> "list-cards", args |-> <<>>],
          [tool |-> "pacmd", cmd |-> "set-card-profile", args |-> <<card_index, <<"off">>>>],
          [tool |-> "pacmd", cmd |-> "set-card-profile", args |-> <<card_index, profile>>],
          [tool |-> "pacmd", cmd |-> "list-sinks", args |-> <<>>],
          [tool |-> "pacmd", cmd |-> "set-default-sink", args |-> <<sink_index>>] >>

CallsInOrder ==
    LET n == IF InfoCalls = {} THEN 1 ELSE Cardinality(InfoCalls)
    IN  /\ Len(calls) <= Len(FullRun(n))
        /\ \A i \in 1..Len(calls) : calls[i] = FullRun(n)[i]

\* a step that spawns a process does so only when every earlier call has
\* returned, none has raised, nothing has failed, and the step before it had
\* the outcome that lets main go on
SpawnsAfterSuccess ==
    calls' # calls =>
        /\ ~inflight
        /\ failure = "none"
        /\ Len(calls') = Len(calls) + 1
        /\ Len(outs) = Len(calls)
        /\ \A i \in 1..Len(outs) : ~outs[i].raised
        /\ calls'[Len(calls')].cmd # "connect" =>
              ~Contains(outs[1].stdout, << <<"Device">>, address, <<"not">>, <<"available">> >>)
        /\ calls'[Len(calls')].cmd = "list-cards" =>
              Contains(outs[Len(outs)].stdout, << <<"Connected:">>, <<"yes">> >>)
        /\ calls'[Len(calls')].cmd = "set-card-profile" => card_index # <<>>
        /\ calls'[Len(calls')].cmd = "set-default-sink" => sink_index # <<>>

\* C1: in every run the external calls are issued in the order connect, one
\* or more info polls, list-cards, set-card-profile <card> off,
\* set-card-profile <card> <requested profile>, list-sinks, set-default-sink,
\* each but the poll at most once; and a call is issued only after the step
\* before it has returned successfully.
C1_FixedCallOrder == []CallsInOrder /\ [][SpawnsAfterSuccess]_vars

\* a run that polled more than once and issued all seven kinds of call
C1_Witness ==
    /\ pc = "Done"
    /\ Cardinality(InfoCalls) >= 2
    /\ Len(calls) = Cardinality(InfoCalls) + 6
    /\ profile # <<"off">>

\* something has gone wrong in the run: the address was rejected, a call
\* raised, the device was reported not available, the wait timed out, or a
\* lookup found nothing
StepFailed ==
    \/ failure # "none"
    \/ pc # "Idle" /\ address = <<>>
    \/ \E i \in 1..Len(outs) : outs[i].raised
    \/ ReturnedWith(1, << <<"Device">>, address, <<"not">>, <<"available">> >>)
    \/ \E i \in 1..Len(outs) :
          /\ ~outs[i].raised
          /\ \/ calls[i].cmd = "list-cards" /\ ~Search(outs[i].stdout, CardName(address)).found
             \/ calls[i].cmd = "list-sinks"
                   /\ ~Search(outs[i].stdout, SinkName(address, profile)).found

\* once the run has failed it stays as it is
FailedIsTerminal ==
    StepFailed => /\ calls' = calls
                  /\ pc' = pc
                  /\ failure' = failure
                  /\ exitCode' = exitCode

\* C2: once a step has failed the run is in the terminal state Failed: the
\* failed call is the last call of the run, and the process exits with a
\* non-zero status.  Exit status 0 occurs only when Done is reached.
C2_FailureIsTerminal ==
    /\ [](StepFailed => (/\ pc = "Failed"
                         /\ failure # "none"
                         /\ exitCode > 0
                         /\ Len(outs) = Len(calls)
                         /\ \A i \in 1..(Len(outs) - 1) : ~outs[i].raised))
    /\ [](exitCode = 0 => (pc = "Done" /\ failure = "none"))
    /\ [](pc = "Done" => exitCode = 0)
    /\ [][FailedIsTerminal]_vars

\* set-card-profile raised after three earlier steps succeeded
C2_Witness ==
    /\ pc = "Failed"
    /\ failure = "ExternalProcessFailure"
    /\ Len(calls) >= 4
    /\ LastCall.cmd = "set-card-profile"
    /\ RaisedAt(Len(calls))

\* C3: if the stdout of the connect request contains "Device <address> not
\* available", the run is Failed with DeviceUnavailable, the connect is the
\* only call ever made (no info poll, no pacmd call), and the exit status is
\* not zero.
C3_DeviceUnavailableAborts ==
    ReturnedWith(1, << <<"Device">>, address, <<"not">>, <<"available">> >>) =>
        /\ pc = "Failed"
        /\ failure = "DeviceUnavailable"
        /\ exitCode > 0
        /\ Len(calls) = 1
        /\ calls[1].tool = "bluetoothctl" /\ calls[1].cmd = "connect"
        /\ InfoCalls = {} /\ AudioCalls = {}
        /\ ~inflight

\* the marker arrived between other output
C3_Witness ==
    /\ ReturnedWith(1, << <<"Device">>, address, <<"not">>, <<"available">> >>)
    /\ Len(outs[1].stdout) > 4
    /\ pc = "Failed"

\* C4: when address validation fails with InvalidAddress the run is Failed
\* and no bluetoothctl or pacmd process is ever spawned.
C4_InvalidAddressSpawnsNothing ==
    failure = "InvalidAddress" =>
        /\ pc = "Failed"
        /\ calls = <<>>
        /\ outs = <<>>
        /\ ~inflight
        /\ exitCode > 0

\* the argument "foo" was rejected
C4_Witness ==
    /\ failure = "InvalidAddress"
    /\ argv.b.kind = "str"
    /\ Len(argv.b.s) = 3
    /\ pc = "Failed"

\* the last info poll of the run, as an index of calls (1 when there is none)
LastPoll == 1 + Len(polledAt)

\* wait_until_connected is over and main has gone on
WaitSucceeded == pc = "ResolvingCard" \/ Len(calls) > LastPoll

\* the run ended inside wait_until_connected
FailedInWait ==
    /\ pc = "Failed"
    /\ Len(outs) >= 1
    /\ ~outs[1].raised
    /\ ~Contains(outs[1].stdout, << <<"Device">>, address, <<"not">>, <<"available">> >>)
    /\ Len(calls) = LastPoll

\* C5: whatever the info polls return: a poll that returns text containing
\* "Connected: yes" is the last poll of the run and the first to return it,
\* the wait does not time out and main goes on to the card lookup; a wait in
\* which every poll returned text without the marker ends with
\* ConnectTimeout, once the deadline is reached; and the wait never succeeds
\* without the marker having been seen.
C5_WaitFollowsMarker ==
    /\ \A i \in InfoCalls :
          ReturnedWith(i, << <<"Connected:">>, <<"yes">> >>) =>
              /\ i = LastPoll
              /\ \A j \in InfoCalls : j < i => ~ReturnedWith(j, << <<"Connected:">>, <<"yes">> >>)
              /\ failure # "ConnectTimeout"
              /\ WaitSucceeded
    /\ (FailedInWait /\ \A i \in InfoCalls : ~RaisedAt(i)) =>
          /\ failure = "ConnectTimeout"
          /\ Elapsed >= timeout
          /\ \A i \in InfoCalls : ~ReturnedWith(i, << <<"Connected:">>, <<"yes">> >>)
    /\ failure = "ConnectTimeout" => FailedInWait
    /\ WaitSucceeded =>
          /\ polledAt # <<>>
          /\ ReturnedWith(LastPoll, << <<"Connected:">>, <<"yes">> >>)

\* the first poll lacked the marker and a later one had it
C5_Witness ==
    /\ pc = "ResolvingCard"
    /\ Len(polledAt) >= 2
    /\ ~ReturnedWith(2, << <<"Connected:">>, <<"yes">> >>)
    /\ ReturnedWith(LastPoll, << <<"Connected:">>, <<"yes">> >>)

\* a poll that returns the marker after the deadline still ends the wait
\* successfully
LatePollStillSucceeds ==
    ( /\ pc = "AwaitingConnection"
      /\ inflight
      /\ Elapsed >= timeout
      /\ Len(outs') = Len(outs) + 1
      /\ ~outs'[Len(outs')].raised
      /\ Contains(outs'[Len(outs')].stdout, << <<"Connected:">>, <<"yes">> >>) )
    => (pc' = "ResolvingCard" /\ failure' = "none")

\* the timeout is not raised while a poll is in flight, and once a poll has
\* returned without the marker at or after the deadline the very next step
\* raises it, without another poll
TimeoutAfterPollInFlight ==
    /\ inflight => failure' # "ConnectTimeout"
    /\ (pc = "AwaitingConnection" /\ ~inflight /\ Elapsed >= timeout)
          => (failure' = "ConnectTimeout" /\ calls' = calls)

\* C6: the elapsed-time check happens only at loop-top: no info poll is
\* started once the elapsed time is >= the connect timeout; a poll in flight
\* when the deadline passes completes, and if it returns "Connected: yes" the
\* wait succeeds; ConnectTimeout is raised no later than the completion of
\* the one poll that was in flight at the deadline.
C6_SoftTimeout ==
    /\ [](\A k \in 1..Len(polledAt) : polledAt[k] < timeout)
    /\ [][LatePollStillSucceeds]_vars
    /\ [][TimeoutAfterPollInFlight]_vars

\* a poll started before the deadline returned the marker after it
C6_Witness ==
    /\ pc = "ResolvingCard"
    /\ timeout > 0
    /\ polledAt[Len(polledAt)] < timeout
    /\ Elapsed > timeout

\* C7: set_card_profile issues set-card-profile <card> off and then
\* set-card-profile <card> <requested profile>, with the same card index and
\* only after the first call succeeded.  When the second call fails the card
\* is left with profile off: the run is Failed and no further call (no
\* re-enable, list-sinks or set-default-sink) is issued.  When the off call
\* fails the requested profile is never applied.
C7_OffThenProfile ==
    /\ Cardinality(ProfileCalls) <= 2
    /\ \A i \in ProfileCalls :
          IF i - 1 \notin ProfileCalls
          THEN /\ calls[i].args = <<card_index, <<"off">>>>
               /\ RaisedAt(i) => /\ pc = "Failed"
                                 /\ Len(calls) = i
                                 /\ card_index \notin DOMAIN cardProfile
          ELSE /\ calls[i].args = <<card_index, profile>>
               /\ calls[i].args[1] = calls[i - 1].args[1]
               /\ ~RaisedAt(i - 1) /\ i - 1 <= Len(outs)
               /\ RaisedAt(i) => /\ pc = "Failed"
                                 /\ Len(calls) = i
                                 /\ cardProfile[card_index] = <<"off">>
                                 /\ defaultSink = <<"0">>
    /\ \A c \in DOMAIN cardProfile :
          cardProfile[c] # <<"off">> =>
              \E i \in ProfileCalls : i - 1 \in ProfileCalls /\ ~RaisedAt(i) /\ i <= Len(outs)

\* the off call succeeded and the call for the requested profile raised
C7_Witness ==
    /\ pc = "Failed"
    /\ Cardinality(ProfileCalls) = 2
    /\ RaisedAt(Len(calls))
    /\ LastCall.cmd = "set-card-profile"
    /\ profile # <<"off">>
    /\ cardProfile[card_index] = <<"off">>

ConnectCalls == { i \in 1..Len(calls) : calls[i].cmd = "connect" }

\* what connect_device does with the stdout it is given
ConnectDecides ==
    ( /\ pc = "Connecting"
      /\ Len(outs') = Len(outs) + 1
      /\ ~outs'[1].raised )
    => IF Contains(outs'[1].stdout, << <<"Device">>, address, <<"not">>, <<"available">> >>)
       THEN pc' = "Failed" /\ failure' = "DeviceUnavailable"
       ELSE pc' = "AwaitingConnection" /\ failure' = "none"

\* C10: connect_device spawns exactly one process, and fails with
\* DeviceUnavailable if and only if the stdout of that process contains
\* "Device <address> not available"; on any other stdout, one that reports a
\* failed connection attempt included, it succeeds and main goes on to wait
\* for the connection.
C10_ConnectByMarkerOnly ==
    /\ [](Cardinality(ConnectCalls) <= 1)
    /\ []((pc \notin {"Idle", "Connecting"} /\ address # <<>>) => ConnectCalls = {1})
    /\ [](failure = "DeviceUnavailable"
            <=> ReturnedWith(1, << <<"Device">>, address, <<"not">>, <<"available">> >>))
    /\ [][ConnectDecides]_vars

\* bluetoothctl reported a failed connection attempt and main went on
C10_Witness ==
    /\ pc = "AwaitingConnection"
    /\ Len(calls) = 1
    /\ ReturnedWith(1, << <<"Failed">>, <<"to">>, <<"connect:">> >>)

-----------------------------------------------------------------------------
(* Lookups in the dumps of the audio server *)

\* the indices of the entities of a dump that are called name: an index line
\* followed, with nothing but other lines of the same entity between, by the
\* line that gives the name
EntityIndices(dump, name) ==
    { dump[i].v : i \in { i \in 1..Len(dump) :
        /\ dump[i].t = "index"
        /\ \E j \in (i + 1)..Len(dump) :
              /\ dump[j].t = "name"
              /\ dump[j].v = name
              /\ \A k \in (i + 1)..(j - 1) : dump[k].t = "line" } }

\* lookup call i returned a dump, searched for name with result found
LookupAgrees(i, name, found) ==
    LET E == EntityIndices(outs[i].stdout, name)
    IN  IF E # {}
        THEN found \in E /\ ~(pc = "Failed" /\ Len(calls) = i)
        ELSE failure = "EntityNotFound" /\ pc = "Failed" /\ Len(calls) = i

\* C11: when a dump holds an entity whose `index: <N>` line is followed,
\* possibly after other lines, by `name: <NAME>` with NAME the synthesized
\* card or sink name, the lookup returns that entity's N; when no entity of
\* the dump has that name, the lookup fails with EntityNotFound.
C11_LookupFindsNamedEntity ==
    \A i \in 1..Len(outs) :
        ~outs[i].raised =>
            /\ calls[i].cmd = "list-cards" => LookupAgrees(i, CardName(address), card_index)
            /\ calls[i].cmd = "list-sinks" =>
                  LookupAgrees(i, SinkName(address, profile), sink_index)

\* call i passes, as its first argument, the index that the lookup call cmd
\* of this run found for name
PassesIndexFrom(i, cmd, name) ==
    \E k \in 1..(i - 1) :
        /\ calls[k].cmd = cmd
        /\ k <= Len(outs) /\ ~outs[k].raised
        /\ Search(outs[k].stdout, name).found
        /\ calls[i].args[1] = Search(outs[k].stdout, name).index

\* C12: in every run the card index passed to both set-card-profile calls
\* is the index the card lookup of that run returned, and the sink index
\* passed to set-default-sink is the index the sink lookup of that run
\* returned; Done is reached only after set-default-sink was issued with
\* that sink index and returned successfully.
C12_IndicesThreaded ==
    /\ \A i \in ProfileCalls : PassesIndexFrom(i, "list-cards", CardName(address))
    /\ \A i \in 1..Len(calls) :
          calls[i].cmd = "set-default-sink" =>
              PassesIndexFrom(i, "list-sinks", SinkName(address, profile))
    /\ pc = "Done" =>
          /\ LastCall.cmd = "set-default-sink"
          /\ Len(outs) = Len(calls)
          /\ ~outs[Len(outs)].raised
          /\ LastCall.args = <<sink_index>>
          /\ defaultSink = sink_index

\* Done with a sink index that differs from the card index
C12_Witness ==
    /\ pc = "Done"
    /\ card_index = <<"1", "2">>
    /\ sink_index = <<"1">>
    /\ defaultSink = <<"1">>
    /\ Cardinality(ProfileCalls) = 2

SinkCalls == { i \in 1..Len(calls) : calls[i].cmd = "set-default-sink" }

\* the list-sinks call returned a dump in which no sink has the name
\* synthesized from the address and the requested profile
RequestedSinkAbsent ==
    \E i \in 1..Len(outs) :
        /\ calls[i].cmd = "list-sinks"
        /\ ~outs[i].raised
        /\ EntityIndices(outs[i].stdout, SinkName(address, profile)) = {}

\* C13: the sink is looked up under the name made of the validated address
\* and the requested profile: the call that follows set-card-profile <card>
\* <profile> is list-sinks, with no query of the active profile between.
\* When the sink for the requested profile is absent from the list-sinks
\* output the run fails with EntityNotFound, set-default-sink is never
\* called and the default sink stays as it was.  set-default-sink is issued
\* at most once, as the last external call.
C13_SinkByRequestedProfile ==
    /\ \A i \in ProfileCalls :
          (i - 1 \in ProfileCalls /\ Len(calls) > i) => calls[i + 1].cmd = "list-sinks"
    /\ RequestedSinkAbsent =>
          /\ pc = "Failed"
          /\ failure = "EntityNotFound"
          /\ SinkCalls = {}
          /\ defaultSink = <<"0">>
    /\ Cardinality(SinkCalls) <= 1
    /\ \A i \in SinkCalls : i = Len(calls)

\* C14: the connect timeout is positive whenever the polling loop is
\* entered (a zero or negative value is rejected before AwaitingConnection),
\* and a wait that has succeeded or has failed with ConnectTimeout has
\* issued at least one info poll.
C14_TimeoutPositive ==
    /\ pc = "AwaitingConnection" => timeout > 0
    /\ (pc # "Idle" /\ argv.c <= 0) => (pc = "Failed" /\ calls = <<>>)
    /\ (WaitSucceeded \/ failure = "ConnectTimeout") => InfoCalls # {}

-----------------------------------------------------------------------------
(* Termination, when every external call returns *)

\* an info poll returns after the wall clock has advanced
PollReturnAfterTick ==
    /\ pc = "AwaitingConnection"
    /\ inflight
    /\ Elapsed > polledAt[Len(polledAt)]
    /\ PollReturn

NextLive ==
    \/ ParseArgs
    \/ ConnectCall
    \/ ConnectReturn
    \/ PollCall
    \/ Tick
    \/ PollReturnAfterTick
    \/ WaitTimeout
    \/ ListCardsCall
    \/ ListCardsReturn
    \/ ProfileOffCall
    \/ ProfileOffReturn
    \/ ProfileSetCall
    \/ ProfileSetReturn
    \/ ListSinksCall
    \/ ListSinksReturn
    \/ DefaultSinkCall
    \/ DefaultSinkReturn

\* main keeps running and every child process comes to an end
SpecLive == Init /\ [][NextLive]_vars /\ WF_vars(NextLive)

\* while a child process runs, main does nothing but wait for it: it leaves
\* the call only when the child is over
BlockedWhileInflight ==
    inflight =>
        \/ /\ inflight'
           /\ pc' = pc
           /\ calls' = calls
           /\ outs' = outs
           /\ failure' = failure
        \/ /\ ~inflight'
           /\ Len(outs') = Len(outs) + 1
           /\ calls' = calls

\* C15: when every external call returns and the wall clock advances across
\* each info poll, every run reaches Done or Failed, and the number of polls
\* is bounded by the connect timeout also when the marker never appears.  No
\* timeout applies to a single call: a run whose child process does not end
\* stays in that call.
C15_Terminates ==
    /\ <>(pc \in {"Done", "Failed"})
    /\ [](Len(polledAt) <= IF timeout > 0 THEN timeout ELSE 0)
    /\ [][BlockedWhileInflight]_vars

\* the marker never appeared, and the wait ended after as many polls as the
\* timeout has ticks
C15_Witness ==
    /\ pc = "Failed"
    /\ failure = "ConnectTimeout"
    /\ timeout >= 2
    /\ Len(polledAt) = timeout
    /\ \A i \in InfoCalls : ~ReturnedWith(i, << <<"Connected:">>, <<"yes">> >>)

-----------------------------------------------------------------------------
(* Two runs of the tool for one headset *)

RaceArgv == [b |-> StrArg(LowerAddr), c |-> 1, p |-> <<"a2dp_sink">>]

\* the scheduled run's argv, position and locals
Me ==
    Locals(argv, pc, inflight, address, timeout, profile, failure, exitCode, calls,
           outs, start, polledAt, card_index, sink_index, canon)

\* two processes are started, and the first is scheduled
InitRace ==
    /\ argv = RaceArgv
    /\ pc = "Idle"
    /\ inflight = FALSE
    /\ address = <<>>
    /\ timeout = 0
    /\ profile = <<>>
    /\ failure = "none"
    /\ exitCode = NoExit
    /\ calls = <<>>
    /\ outs = <<>>
    /\ now = 0
    /\ start = 0
    /\ polledAt = <<>>
    /\ card_index = <<>>
    /\ sink_index = <<>>
    /\ cardProfile = <<>>
    /\ defaultSink = <<"0">>
    /\ canon = NotFedBack
    /\ cur = "A"
    /\ other = Me

\* a run that has a statement left to execute
Runnable(run) == run.pc \notin {"Absent", "Done", "Failed"}

\* the run takes a lock file before its first pacmd set-card-profile and
\* gives it back when it ends
SwitchUnlessLocked ==
    /\ Runnable(other)
    /\ pc \notin {"SettingProfileOff", "SettingProfile", "ResolvingSink", "SettingDefaultSink"}
    /\ cur' = IF cur = "A" THEN "B" ELSE "A"
    /\ other' = Me
    /\ argv' = other.argv
    /\ pc' = other.pc
    /\ inflight' = other.inflight
    /\ address' = other.address
    /\ timeout' = other.timeout
    /\ profile' = other.profile
    /\ failure' = other.failure
    /\ exitCode' = other.exitCode
    /\ calls' = other.calls
    /\ outs' = other.outs
    /\ start' = other.start
    /\ polledAt' = other.polledAt
    /\ card_index' = other.card_index
    /\ sink_index' = other.sink_index
    /\ canon' = other.canon
    /\ UNCHANGED <<now, cardProfile, defaultSink>>

\* the operating system schedules the other process: main takes no lock and
\* waits for nothing but its own child processes
Switch ==
    /\ Runnable(other)
    /\ cur' = IF cur = "A" THEN "B" ELSE "A"
    /\ other' = Me
    /\ argv' = other.argv
    /\ pc' = other.pc
    /\ inflight' = other.inflight
    /\ address' = other.address
    /\ timeout' = other.timeout
    /\ profile' = other.profile
    /\ failure' = other.failure
    /\ exitCode' = other.exitCode
    /\ calls' = other.calls
    /\ outs' = other.outs
    /\ start' = other.start
    /\ polledAt' = other.polledAt
    /\ card_index' = other.card_index
    /\ sink_index' = other.sink_index
    /\ canon' = other.canon
    /\ UNCHANGED <<now, cardProfile, defaultSink>>

\* the index the audio server gives the headset's card and its sink
HeadsetIndex == <<"1">>

\* pacmd list-sinks of a working audio server: the headset's card has the
\* sink of the profile applied to it last, and no sink while it is off
ServedSinks(bluetooth_address) ==
    IF /\ HeadsetIndex \in DOMAIN cardProfile
       /\ cardProfile[HeadsetIndex] # <<"off">>
    THEN << IndexItem(HeadsetIndex),
            NameItem(SinkName(bluetooth_address, cardProfile[HeadsetIndex])) >>
    ELSE << >>

\* what a paired headset and a working audio server give back to a call
ServedOuts(call) ==
    IF call.cmd = "connect"
    THEN { Returned(<< W("Attempting"), W("to"), W("connect"), W("to"), call.args[1] >>) }
    ELSE IF call.cmd = "info"
    THEN { Returned(ConnectedYes),
           Returned(<< W("Connected:"), W("no"), W("Paired:"), W("yes") >>) }
    ELSE IF call.cmd = "list-cards"
    THEN { Returned(<< IndexItem(HeadsetIndex), NameItem(CardName(address)) >>) }
    ELSE IF call.cmd = "list-sinks"
    THEN { Returned(ServedSinks(address)) }
    ELSE { Returned(<< >>) }

\* the call that returns in this step is answered by the working environment
Served == outs'[Len(outs')] \in ServedOuts(calls[Len(outs')])

NextRace ==
    \/ Switch
    \/ ParseArgs
    \/ ConnectCall
    \/ ConnectReturn /\ Served
    \/ PollCall
    \/ Tick
    \/ PollReturn /\ Served
    \/ WaitTimeout
    \/ ListCardsCall
    \/ ListCardsReturn /\ Served
    \/ ProfileOffCall
    \/ ProfileOffReturn /\ Served
    \/ ProfileSetCall
    \/ ProfileSetReturn /\ Served
    \/ ListSinksCall
    \/ ListSinksReturn /\ Served
    \/ DefaultSinkCall
    \/ DefaultSinkReturn /\ Served

SpecRace == InitRace /\ [][NextRace]_vars

\* run A or run B, whichever of them is scheduled
Run(id) == IF cur = id THEN Me ELSE other

\* the run's pacmd set-card-profile calls that were applied
AppliedProfileCalls(run) ==
    { k \in 1..Len(run.outs) :
        run.calls[k].cmd = "set-card-profile" /\ ~run.outs[k].raised }

\* the run's sink lookup found nothing
SinkLookupFailed(run) ==
    /\ run.pc = "Failed"
    /\ run.failure = "EntityNotFound"
    /\ run.calls[Len(run.calls)].cmd = "list-sinks"

\* the run is over with success and the card does not have its profile
DoneWithOtherProfile(run) ==
    /\ run.pc = "Done"
    /\ cardProfile[run.card_index] # run.profile

\* the run got as far as applying the profile it was asked for
AppliedOwnProfile(run) ==
    \E k \in AppliedProfileCalls(run) : run.calls[k].args[2] = run.profile

\* C16: two runs for one address are not synchronized.  Whenever the run
\* that is not scheduled has a statement left, it may take its next step
\* now, wherever the scheduled run stands; and with a working headset and
\* audio server a run's sink lookup fails, or it ends with success while the
\* card has another profile than the one it asked for, only after the other
\* run's set-card-profile was applied.
C16_RunsUnsynchronized ==
    /\ Runnable(other) => ENABLED Switch
    /\ \A ids \in { <<"A", "B">>, <<"B", "A">> } :
          (SinkLookupFailed(Run(ids[1])) \/ DoneWithOtherProfile(Run(ids[1])))
              => /\ AppliedOwnProfile(Run(ids[1]))
                 /\ AppliedProfileCalls(Run(ids[2])) # {}

\* B's `off` was applied after A's profile and before A's list-sinks returned:
\* A's sink lookup failed, and B has not asked for its profile yet
C16_Witness ==
    /\ SinkLookupFailed(Run("A"))
    /\ AppliedOwnProfile(Run("A"))
    /\ Run("B").pc = "SettingProfile"
    /\ ~Run("B").inflight
    /\ Cardinality(AppliedProfileCalls(Run("B"))) = 1
    /\ cardProfile[HeadsetIndex] = <<"off">>

=============================================================================
